---- MODULE Spec2Model ----
(***************************************************************************)
(* Deployment topology of the RTP Overlay / Visa B2B account-payable       *)
(* infrastructure: six CDK stacks (deployment units), the resources each   *)
(* one declares, and the sequence of applies an operator performs.         *)
(*                                                                         *)
(* The state is what is deployed: per stack the declared resources         *)
(* (functions with environment, role policy and network attachment,        *)
(* security-group ingress rules, buckets, secrets, outputs, API routes).   *)
(* An apply synthesises the stack from its constructor and replaces the    *)
(* deployed resources of that stack; an apply whose references cannot be   *)
(* resolved is rejected and changes nothing.                               *)
(***************************************************************************)
EXTENDS Naturals, Sequences, FiniteSets

VARIABLES stacks, templates, order, last, invocation, response

vars == <<stacks, templates, order, last, invocation, response>>

(***************************************************************************)
(* Names                                                                   *)
(***************************************************************************)
Units ==
  {"InfrastructureStack", "InvoiceProcessingStack", "GRProcessingStack",
   "AgentCoreInvokerStack", "LambdaStack", "VisaStubStack"}

\* ${this.account}: the ambient account id interpolated into names and ARNs
Account == "ACCOUNT"

\* a reference that does not resolve (missing export, missing VPC)
Unresolved == "<unresolved>"

\* the values the operator may pass for the context key agentcoreInvokerExists
ContextValues == {"unset", "false", "true"}

\* rtpApiUrl prop of the two ingestion stacks
ApiUrls == {"https://api-a/prod/", "https://api-b/prod/"}

\* inputBucketName prop of GRProcessingStack ("" is undefined)
InputBucketNames == {"", "custom-gr-input"}

\* the content of lambda/agentcore-invoker bundled into the bridge function
InvokerCodeAssets == {"agentcore-invoker@a", "agentcore-invoker@b"}

Range(s) == {s[i] : i \in DOMAIN s}

(***************************************************************************)
(* Building blocks of a synthesised stack                                  *)
(***************************************************************************)
PolicyStatement(actions, resources, conditions) ==
  [actions |-> actions, resources |-> resources, conditions |-> conditions]

NoCondition == {}

\* one environment entry: key, how the value is bound, the value it resolves to
Env(k, binding, v) == [k |-> k, binding |-> binding, v |-> v]

Literal(k, v) == Env(k, "literal", v)

CfnOutput(id, value, exportName) == [id |-> id, value |-> value, exportName |-> exportName]

LambdaFunction(id, functionName, handler, timeout, env, securityGroups, policy) ==
  [id |-> id, functionName |-> functionName, handler |-> handler, timeout |-> timeout,
   environment |-> env, securityGroups |-> securityGroups, policy |-> policy,
   code |-> "asset"]

EmptyStack ==
  [deployed |-> FALSE, functions |-> {}, securityGroups |-> {}, ingress |-> {},
   buckets |-> {}, secrets |-> {}, outputs |-> {}, routes |-> {}]

Stack(functions, securityGroups, ingress, buckets, secrets, outputs, routes) ==
  [deployed |-> TRUE, functions |-> functions, securityGroups |-> securityGroups,
   ingress |-> ingress, buckets |-> buckets, secrets |-> secrets,
   outputs |-> outputs, routes |-> routes]

(***************************************************************************)
(* Exports of the deployed stacks, and their import                        *)
(***************************************************************************)
ExportsOf(st) ==
  {o \in UNION {st[u].outputs : u \in Units} : o.exportName # ""}

ExportExists(name, exp) == \E o \in exp : o.exportName = name

importValueDangling(name, exp) ==
  IF ExportExists(name, exp)
    THEN (CHOOSE o \in exp : o.exportName = name).value
    ELSE ""

\* cdk.Fn.importValue: the export's value; an import of a missing export
\* does not resolve and the importing stack's deployment is rejected
importValue(name, exp) ==
  IF ExportExists(name, exp)
    THEN (CHOOSE o \in exp : o.exportName = name).value
    ELSE Unresolved

(***************************************************************************)
(* bucket.grantRead / bucket.grantWrite / secret.grantRead                 *)
(***************************************************************************)
BucketArn(name) == "arn:aws:s3:::" \o name

grantReadWrite(bucketName) ==
  PolicyStatement({"s3:GetObject*", "s3:GetBucket*", "s3:List*",
                   "s3:DeleteObject*", "s3:PutObject*", "s3:Abort*"},
                  {BucketArn(bucketName), BucketArn(bucketName) \o "/*"}, NoCondition)

grantRead(bucketName) ==
  PolicyStatement({"s3:GetObject*", "s3:GetBucket*", "s3:List*"},
                  {BucketArn(bucketName), BucketArn(bucketName) \o "/*"}, NoCondition)

grantWrite(bucketName) ==
  PolicyStatement({"s3:DeleteObject*", "s3:PutObject*", "s3:Abort*"},
                  {BucketArn(bucketName), BucketArn(bucketName) \o "/*"}, NoCondition)

SecretArn(secretName) == "arn:aws:secretsmanager:secret:" \o secretName

\* generateSecretString: the value is generated inside the secret on creation
SecretValue(secretName) == "generated:" \o secretName

secretGrantRead(secretName) ==
  PolicyStatement({"secretsmanager:GetSecretValue", "secretsmanager:DescribeSecret"},
                  {SecretArn(secretName)}, NoCondition)

BedrockInvokeModel ==
  PolicyStatement({"bedrock:InvokeModel"},
                  {"arn:aws:bedrock:*::foundation-model/*",
                   "arn:aws:bedrock:REGION:" \o Account \o ":inference-profile/*"},
                  NoCondition)

(***************************************************************************)
(* InfrastructureStack                                                     *)
(***************************************************************************)
DbPort == 5432

ReceiptsBucketName == "rtp-overlay-receipts-" \o Account

DbSecretName == "rtp-overlay-db-credentials"

CidrPeer(cidr) == [kind |-> "cidr", id |-> cidr]

SecurityGroupPeer(sg) == [kind |-> "securityGroup", id |-> sg]

IngressRule(group, peer, port) == [group |-> group, peer |-> peer, port |-> port]

\* the ingress rules declared on dbSecurityGroup
DbIngressRules ==
  {IngressRule("InfrastructureStack/DbSecurityGroup", CidrPeer("vpcCidrBlock"), DbPort),
   IngressRule("InfrastructureStack/DbSecurityGroup",
               SecurityGroupPeer("InfrastructureStack/LambdaSecurityGroup"), DbPort)}

InfrastructureOutputs ==
  {CfnOutput("VpcId", "vpc-RtpOverlayVpc", "RtpOverlayVpcId"),
   CfnOutput("DatabaseEndpoint", "RtpOverlayDatabase.endpoint", "RtpOverlayDbEndpoint"),
   CfnOutput("DatabasePort", "5432", "RtpOverlayDbPort"),
   CfnOutput("DatabaseSecretArn", SecretArn(DbSecretName), "RtpOverlayDbSecretArn"),
   CfnOutput("ReceiptsBucketName", ReceiptsBucketName, "RtpOverlayReceiptsBucket"),
   CfnOutput("ReceiptsBucketArn", BucketArn(ReceiptsBucketName), "RtpOverlayReceiptsBucketArn"),
   CfnOutput("PrivateSubnetIds", "subnet-private-1,subnet-private-2", "RtpOverlayPrivateSubnetIds"),
   CfnOutput("LambdaSecurityGroupId", "InfrastructureStack/LambdaSecurityGroup",
             "RtpOverlayLambdaSecurityGroupId"),
   CfnOutput("NextSteps", "Infrastructure deployed!", "")}

InfrastructureStack ==
  Stack({},
        {"InfrastructureStack/DbSecurityGroup", "InfrastructureStack/LambdaSecurityGroup"},
        DbIngressRules,
        {ReceiptsBucketName},
        {DbSecretName},
        InfrastructureOutputs,
        {})

(***************************************************************************)
(* AgentCoreInvokerStack                                                   *)
(***************************************************************************)
AgentCoreInvokerFunctionNameRenamed == "rtp-overlay-agentcore-invoker-v2"

AgentCoreInvokerFunctionName == "rtp-overlay-agentcore-invoker"

RuntimeArnPlaceholder == "PLACEHOLDER"

FunctionArn(functionName) ==
  "arn:aws:lambda:us-east-1:" \o Account \o ":function:" \o functionName

AgentRuntimePattern == "arn:aws:bedrock-agentcore:us-east-1:" \o Account \o ":runtime/*"

AgentCoreInvokerPolicy ==
  <<PolicyStatement({"bedrock-agentcore:InvokeAgentRuntime", "bedrock-agentcore:GetAgentRuntime"},
                    {AgentRuntimePattern}, NoCondition)>>

\* code: the bundled content of lambda/agentcore-invoker at synthesis time
AgentCoreInvokerLambda(code, policy) ==
  [LambdaFunction("AgentCoreInvokerLambda", AgentCoreInvokerFunctionName,
                  "agentcore_invoker.lambda_handler", 300,
                  {Literal("RUNTIME_ARN", RuntimeArnPlaceholder)},
                  {}, policy)
   EXCEPT !.code = code]

AgentCoreInvokerOutputs ==
  {CfnOutput("AgentCoreInvokerLambdaName", AgentCoreInvokerFunctionName,
             "AgentCoreInvokerLambdaName"),
   CfnOutput("AgentCoreInvokerLambdaArn", FunctionArn(AgentCoreInvokerFunctionName),
             "AgentCoreInvokerLambdaArn")}

AgentCoreInvokerStack(code, policy) ==
  Stack({AgentCoreInvokerLambda(code, policy)}, {}, {}, {}, {},
        AgentCoreInvokerOutputs, {})

(***************************************************************************)
(* InvoiceProcessingStack                                                  *)
(***************************************************************************)
ApiKeySecretName == "rtp-overlay/api-key"

InvoiceInputBucketName == "rtp-overlay-invoices-input-" \o Account

Iso20022OutputBucketName == "rtp-overlay-iso20022-" \o Account

\* the grants issued to invoiceProcessingLambda, in the order of the calls
InvoiceProcessingPolicy ==
  <<grantRead(InvoiceInputBucketName),
    grantWrite(Iso20022OutputBucketName),
    BedrockInvokeModel,
    secretGrantRead(ApiKeySecretName)>>

InvoiceProcessingLambda(rtpApiUrl) ==
  LambdaFunction("InvoiceProcessingLambda", "rtp-overlay-invoice-processor",
                 "lambda_iso20022.lambda_handler", 120,
                 {Literal("INPUT_BUCKET", InvoiceInputBucketName),
                  Literal("OUTPUT_BUCKET", Iso20022OutputBucketName),
                  Literal("RTP_API_URL", rtpApiUrl),
                  Literal("API_KEY_SECRET_NAME", ApiKeySecretName)},
                 {}, InvoiceProcessingPolicy)

InvoiceProcessingOutputs ==
  {CfnOutput("InputBucketName", InvoiceInputBucketName, "RtpOverlayInvoiceInputBucket"),
   CfnOutput("InputBucketArn", BucketArn(InvoiceInputBucketName),
             "RtpOverlayInvoiceInputBucketArn"),
   CfnOutput("OutputBucketName", Iso20022OutputBucketName, "RtpOverlayIso20022OutputBucket"),
   CfnOutput("OutputBucketArn", BucketArn(Iso20022OutputBucketName),
             "RtpOverlayIso20022OutputBucketArn"),
   CfnOutput("LambdaFunctionName", "rtp-overlay-invoice-processor",
             "RtpOverlayInvoiceProcessorName"),
   CfnOutput("ApiKeySecretArn", SecretArn(ApiKeySecretName), "RtpOverlayApiKeySecretArn"),
   CfnOutput("ApiKeySecretName", ApiKeySecretName, "")}

InvoiceProcessingStack(rtpApiUrl) ==
  Stack({InvoiceProcessingLambda(rtpApiUrl)}, {}, {},
        {InvoiceInputBucketName, Iso20022OutputBucketName},
        {ApiKeySecretName},
        InvoiceProcessingOutputs,
        {})

(***************************************************************************)
(* GRProcessingStack                                                       *)
(***************************************************************************)
DefaultGRInputBucketName == "rtp-overlay-receipts-input-" \o Account

\* props.inputBucketName || `rtp-overlay-receipts-input-${this.account}`
GRInputBucketName(inputBucketName) ==
  IF inputBucketName # "" THEN inputBucketName ELSE DefaultGRInputBucketName

GRSecurityGroupsInVpc == {"InfrastructureStack/LambdaSecurityGroup"}

\* grProcessingLambda is declared without vpc and securityGroups
GRSecurityGroups == {}

\* lambdaRole's Bedrock statement, then inputBucket.grantRead
GRProcessingPolicy(inputBucketName) ==
  <<BedrockInvokeModel, grantRead(GRInputBucketName(inputBucketName))>>

GRProcessingLambda(rtpApiUrl, inputBucketName) ==
  LambdaFunction("GRProcessingLambda", "rtp-overlay-gr-processor",
                 "lambda_goods_receipt.lambda_handler", 300,
                 {Literal("RTP_API_URL", rtpApiUrl),
                  Literal("BEDROCK_MODEL_ID", "us.anthropic.claude-sonnet-4-20250514-v1:0")},
                 GRSecurityGroups, GRProcessingPolicy(inputBucketName))

GRProcessingOutputs(inputBucketName) ==
  {CfnOutput("LambdaFunctionName", "rtp-overlay-gr-processor", ""),
   CfnOutput("InputBucketName", GRInputBucketName(inputBucketName), "")}

GRProcessingStack(rtpApiUrl, inputBucketName) ==
  Stack({GRProcessingLambda(rtpApiUrl, inputBucketName)}, {}, {},
        {GRInputBucketName(inputBucketName)},
        {},
        GRProcessingOutputs(inputBucketName),
        {})

(***************************************************************************)
(* VisaStubStack                                                           *)
(***************************************************************************)
StubFunctionDefaultFailure(id, handler) ==
  LambdaFunction(id, "VisaStubStack-" \o id, handler, 30,
                 {Literal("RESPONSE_MODE", "FAILURE")}, {}, <<>>)

StubFunction(id, handler) ==
  LambdaFunction(id, "VisaStubStack-" \o id, handler, 30,
                 {Literal("RESPONSE_MODE", "SUCCESS")}, {}, <<>>)

StubFunctions ==
  {StubFunction("VirtualCardRequisition", "index.virtualCardRequisition"),
   StubFunction("ProcessPayments", "index.processPayments"),
   StubFunction("GetPaymentDetails", "index.getPaymentDetails"),
   StubFunction("GetSecurityCode", "index.getSecurityCode")}

Route(path, method, function) == [path |-> path, method |-> method, function |-> function]

StubRoutesCrossed ==
  {Route("/vpa/v1/accountManagement/VirtualCardRequisition", "POST", "VirtualCardRequisition"),
   Route("/vpa/v1/accountManagement/GetSecurityCode", "POST", "VirtualCardRequisition"),
   Route("/vpa/v1/payment/ProcessPayments", "POST", "ProcessPayments"),
   Route("/vpa/v1/payment/GetPaymentDetails", "POST", "GetPaymentDetails")}

StubRoutes ==
  {Route("/vpa/v1/accountManagement/VirtualCardRequisition", "POST", "VirtualCardRequisition"),
   Route("/vpa/v1/accountManagement/GetSecurityCode", "POST", "GetSecurityCode"),
   Route("/vpa/v1/payment/ProcessPayments", "POST", "ProcessPayments"),
   Route("/vpa/v1/payment/GetPaymentDetails", "POST", "GetPaymentDetails")}

VisaStubOutputsExportingBridgeName ==
  {CfnOutput("VisaStubApiUrl", "https://visa-b2b-stub-api/v1/", "AgentCoreInvokerLambdaName")}

VisaStubOutputs ==
  {CfnOutput("VisaStubApiUrl", "https://visa-b2b-stub-api/v1/", "VisaStubApiUrl"),
   CfnOutput("VirtualCardRequisitionEndpoint",
             "https://visa-b2b-stub-api/v1/vpa/v1/accountManagement/VirtualCardRequisition", ""),
   CfnOutput("ProcessPaymentsEndpoint",
             "https://visa-b2b-stub-api/v1/vpa/v1/payment/ProcessPayments", ""),
   CfnOutput("GetPaymentDetailsEndpoint",
             "https://visa-b2b-stub-api/v1/vpa/v1/payment/GetPaymentDetails", ""),
   CfnOutput("GetSecurityCodeEndpoint",
             "https://visa-b2b-stub-api/v1/vpa/v1/accountManagement/GetSecurityCode", "")}

\* the resources of the API, the root and every addResource
StubResources ==
  {"/", "/vpa", "/vpa/v1", "/vpa/v1/accountManagement", "/vpa/v1/payment"}
    \cup {r.path : r \in StubRoutes}

\* defaultCorsPreflightOptions: an OPTIONS method on every resource, answered
\* by the gateway itself, with no function behind it
CorsPreflightRoutes == {Route(p, "OPTIONS", "") : p \in StubResources}

VisaStubStack ==
  Stack(StubFunctions, {}, {}, {}, {}, VisaStubOutputs, StubRoutes \cup CorsPreflightRoutes)

(***************************************************************************)
(* LambdaStack                                                             *)
(***************************************************************************)
\* the four props of LambdaStackProps, taken from InfrastructureStack's exports
LambdaStackProps(exp) ==
  [vpcId |-> importValue("RtpOverlayVpcId", exp),
   dbEndpoint |-> importValue("RtpOverlayDbEndpoint", exp),
   dbSecretArn |-> importValue("RtpOverlayDbSecretArn", exp),
   s3BucketName |-> importValue("RtpOverlayReceiptsBucket", exp)]

fromLookupUnchecked(vpcId) == TRUE

\* ec2.Vpc.fromLookup: the lookup succeeds only for a VPC that exists
fromLookup(vpcId) == vpcId # Unresolved

\* the literal used while the context flag is not 'true'
DefaultInvokerFunctionName == "rtp-overlay-agentcore-invoker"

AgentcoreInvokerLambdaNameEmpty(ctx, exp) ==
  IF ctx = "true"
    THEN Env("AGENTCORE_INVOKER_LAMBDA_NAME", "import",
             importValue("AgentCoreInvokerLambdaName", exp))
    ELSE Literal("AGENTCORE_INVOKER_LAMBDA_NAME", "")

\* this.node.tryGetContext('agentcoreInvokerExists') === 'true'
\*   ? cdk.Fn.importValue('AgentCoreInvokerLambdaName') : 'rtp-overlay-agentcore-invoker'
AgentcoreInvokerLambdaName(ctx, exp) ==
  IF ctx = "true"
    THEN Env("AGENTCORE_INVOKER_LAMBDA_NAME", "import",
             importValue("AgentCoreInvokerLambdaName", exp))
    ELSE Literal("AGENTCORE_INVOKER_LAMBDA_NAME", DefaultInvokerFunctionName)

KmsKeyAlias == "alias/rtp-overlay-payment-cards"

KmsKeyPattern == "arn:aws:kms:us-east-1:" \o Account \o ":key/*"

KmsGrantUnconditioned ==
  PolicyStatement({"kms:Encrypt", "kms:Decrypt", "kms:DescribeKey"}, {KmsKeyPattern},
                  NoCondition)

KmsGrant ==
  PolicyStatement({"kms:Encrypt", "kms:Decrypt", "kms:DescribeKey"}, {KmsKeyPattern},
                  {[operator |-> "StringEquals", key |-> "kms:RequestAlias",
                    value |-> KmsKeyAlias]})

InvokeGrantOtherFunctionName == "rtp-overlay-agentcore-invoker-lambda"

\* the function the lambda:InvokeFunction grant names
InvokeGrantFunctionName == "rtp-overlay-agentcore-invoker"

ApiLambdaPolicyWithOutputWrite(props) ==
  <<PolicyStatement({"secretsmanager:GetSecretValue"}, {props.dbSecretArn}, NoCondition),
    PolicyStatement({"s3:GetObject", "s3:PutObject", "s3:DeleteObject"},
                    {BucketArn(props.s3BucketName) \o "/*"}, NoCondition),
    PolicyStatement({"s3:ListBucket"}, {BucketArn(props.s3BucketName)}, NoCondition),
    PolicyStatement({"s3:PutObject", "s3:GetObject"},
                    {BucketArn("rtp-overlay-invoices-input-" \o Account) \o "/*"}, NoCondition),
    PolicyStatement({"s3:PutObject", "s3:GetObject"},
                    {BucketArn("rtp-overlay-receipts-input-" \o Account) \o "/*"}, NoCondition),
    PolicyStatement({"s3:PutObject", "s3:GetObject"},
                    {BucketArn("rtp-overlay-iso20022-" \o Account) \o "/*"}, NoCondition),
    PolicyStatement({"bedrock-agentcore:InvokeRuntime", "bedrock-agentcore:GetAgentRuntime"},
                    {AgentRuntimePattern}, NoCondition),
    PolicyStatement({"lambda:InvokeFunction"}, {FunctionArn(InvokeGrantFunctionName)},
                    NoCondition),
    KmsGrant>>

\* the statements added to apiLambda's role, in the order of the addToRolePolicy calls
ApiLambdaPolicy(props) ==
  <<PolicyStatement({"secretsmanager:GetSecretValue"}, {props.dbSecretArn}, NoCondition),
    PolicyStatement({"s3:GetObject", "s3:PutObject", "s3:DeleteObject"},
                    {BucketArn(props.s3BucketName) \o "/*"}, NoCondition),
    PolicyStatement({"s3:ListBucket"}, {BucketArn(props.s3BucketName)}, NoCondition),
    PolicyStatement({"s3:PutObject", "s3:GetObject"},
                    {BucketArn("rtp-overlay-invoices-input-" \o Account) \o "/*"}, NoCondition),
    PolicyStatement({"s3:PutObject", "s3:GetObject"},
                    {BucketArn("rtp-overlay-receipts-input-" \o Account) \o "/*"}, NoCondition),
    PolicyStatement({"s3:GetObject"},
                    {BucketArn("rtp-overlay-iso20022-" \o Account) \o "/*"}, NoCondition),
    PolicyStatement({"bedrock-agentcore:InvokeRuntime", "bedrock-agentcore:GetAgentRuntime"},
                    {AgentRuntimePattern}, NoCondition),
    PolicyStatement({"lambda:InvokeFunction"}, {FunctionArn(InvokeGrantFunctionName)},
                    NoCondition),
    KmsGrant>>

ApiLambdaEnvironment(props, ctx, exp) ==
  {Literal("NODE_ENV", "production"),
   Literal("DB_HOST", props.dbEndpoint),
   Literal("DB_PORT", "5432"),
   Literal("DB_DATABASE", "rtpoverlay"),
   Literal("DB_SSL", "true"),
   Literal("DB_SECRET_ARN", props.dbSecretArn),
   Literal("AWS_S3_BUCKET", props.s3BucketName),
   Literal("S3_INPUT_BUCKET", "rtp-overlay-invoices-input-" \o Account),
   Literal("S3_GR_INPUT_BUCKET", "rtp-overlay-receipts-input-" \o Account),
   Literal("ISO20022_BUCKET_NAME", "rtp-overlay-iso20022-" \o Account),
   Literal("RECEIPTS_BUCKET", props.s3BucketName),
   Literal("CORS_ORIGIN", "*"),
   Literal("PAYMENT_AGENT_ARN",
           "arn:aws:bedrock-agentcore:us-east-1:" \o Account
             \o ":runtime/visa_b2b_payment_agent-pnP6d452ZH"),
   Literal("KMS_KEY_ID", KmsKeyAlias),
   AgentcoreInvokerLambdaName(ctx, exp)}

ApiLambda(props, ctx, exp) ==
  LambdaFunction("ApiLambda", "LambdaStack-ApiLambda", "dist/lambda.handler", 60,
                 ApiLambdaEnvironment(props, ctx, exp),
                 {"LambdaStack/LambdaSecurityGroup"},
                 ApiLambdaPolicy(props))

MigrationLambdaWithPassword(props) ==
  LambdaFunction("MigrationLambda", "LambdaStack-MigrationLambda",
                 "dist/scripts/migrate-and-seed-lambda.handler", 300,
                 {Literal("NODE_ENV", "production"),
                  Literal("DB_HOST", props.dbEndpoint),
                  Literal("DB_PORT", "5432"),
                  Literal("DB_DATABASE", "rtpoverlay"),
                  Literal("DB_PASSWORD", SecretValue(DbSecretName))},
                 {"LambdaStack/LambdaSecurityGroup"},
                 <<>>)

MigrationLambda(props) ==
  LambdaFunction("MigrationLambda", "LambdaStack-MigrationLambda",
                 "dist/scripts/migrate-and-seed-lambda.handler", 300,
                 {Literal("NODE_ENV", "production"),
                  Literal("DB_HOST", props.dbEndpoint),
                  Literal("DB_PORT", "5432"),
                  Literal("DB_DATABASE", "rtpoverlay"),
                  Literal("DB_SECRET_ARN", props.dbSecretArn)},
                 {"LambdaStack/LambdaSecurityGroup"},
                 <<PolicyStatement({"secretsmanager:GetSecretValue"}, {props.dbSecretArn},
                                   NoCondition)>>)

LambdaStackOutputs ==
  {CfnOutput("ApiUrl", "https://rtp-overlay-api/prod/", "RtpOverlayApiUrl"),
   CfnOutput("LambdaFunctionName", "LambdaStack-ApiLambda", "RtpOverlayLambdaName"),
   CfnOutput("MigrationLambdaName", "LambdaStack-MigrationLambda", "")}

LambdaStack(props, ctx, exp) ==
  Stack({ApiLambda(props, ctx, exp), MigrationLambda(props)},
        {"LambdaStack/LambdaSecurityGroup"}, {}, {}, {},
        LambdaStackOutputs,
        {Route("/{proxy+}", "ANY", "ApiLambda")})

\* a synthesised stack deploys only if every reference in it resolves
Resolves(stack) ==
  \A f \in stack.functions :
    \A e \in f.environment : e.binding = "import" => e.v # Unresolved

(***************************************************************************)
(* State                                                                   *)
(*   stacks      what is deployed, per unit (EmptyStack when absent)       *)
(*   templates   the declaration each unit was last applied with           *)
(*   order       the units of an import, in the order of their first       *)
(*               successful apply                                          *)
(*   last        the last operation, its inputs and its outcome, and       *)
(*               whether it repeats the apply before it                    *)
(*   invocation  the last call of the bridge by the proxying function      *)
(*   response    the answer to the last call of a stub endpoint             *)
(***************************************************************************)
NoInputs == [ctx |-> "", rtpApiUrl |-> "", inputBucketName |-> "", code |-> ""]

NoInvocation == [target |-> "", outcome |-> "none", bridgeDeployed |-> FALSE, binding |-> ""]

NoResponse ==
  [path |-> "", mode |-> "", binding |-> "", timeout |-> 0, class |-> "none",
   operation |-> "", delay |-> 0]

Init ==
  /\ stacks = [u \in Units |-> EmptyStack]
  /\ templates = [u \in Units |-> EmptyStack]
  /\ order = <<>>
  /\ last = [op |-> "init", unit |-> "", inputs |-> NoInputs, outcome |-> "", again |-> FALSE]
  /\ invocation = NoInvocation
  /\ response = NoResponse

Exports == ExportsOf(stacks)

Deployed(u) == stacks[u].deployed

Functions == UNION {stacks[u].functions : u \in Units}

HasFunction(id) == \E f \in Functions : f.id = id

Function(id) == CHOOSE f \in Functions : f.id = id

EnvEntry(f, k) == CHOOSE e \in f.environment : e.k = k

(***************************************************************************)
(* The values one unit takes from another: the four LambdaStackProps come  *)
(* from InfrastructureStack; the bridge's function name is imported only   *)
(* under the context flag and has a literal default (placeholder).         *)
(***************************************************************************)
Import(from, to, value, placeholder) ==
  [from |-> from, to |-> to, value |-> value, placeholder |-> placeholder]

Imports ==
  {Import("InfrastructureStack", "LambdaStack", "vpcId", FALSE),
   Import("InfrastructureStack", "LambdaStack", "dbEndpoint", FALSE),
   Import("InfrastructureStack", "LambdaStack", "dbSecretArn", FALSE),
   Import("InfrastructureStack", "LambdaStack", "s3BucketName", FALSE),
   Import("AgentCoreInvokerStack", "LambdaStack", "AgentCoreInvokerLambdaName", TRUE)}

ImportUnits == {i.from : i \in Imports} \cup {i.to : i \in Imports}

(***************************************************************************)
(* One apply of a unit: a rejected deployment changes nothing; an accepted *)
(* one whose declaration equals the one last applied performs no update;   *)
(* otherwise the unit's resources become the declared ones.                *)
(***************************************************************************)
Converge(u, inputs, declared, accepted) ==
  /\ IF accepted /\ declared # templates[u]
       THEN /\ stacks' = [stacks EXCEPT ![u] = declared]
            /\ templates' = [templates EXCEPT ![u] = declared]
            /\ order' = IF Deployed(u) \/ u \notin ImportUnits THEN order
                         ELSE Append(order, u)
       ELSE UNCHANGED <<stacks, templates, order>>
  /\ last' = [op |-> "apply", unit |-> u, inputs |-> inputs,
              outcome |-> IF accepted THEN "applied" ELSE "rejected",
              again |-> /\ last.op = "apply" /\ last.unit = u
                        /\ last.inputs = inputs /\ last.outcome = "applied"]
  /\ UNCHANGED <<invocation, response>>

ApplyInfrastructureStack ==
  /\ Converge("InfrastructureStack", NoInputs, InfrastructureStack, TRUE)

ApplyInvoiceProcessingStack ==
  /\ \E url \in ApiUrls :
       Converge("InvoiceProcessingStack", [NoInputs EXCEPT !.rtpApiUrl = url],
                InvoiceProcessingStack(url), TRUE)

ApplyGRProcessingStack ==
  /\ \E url \in ApiUrls, bucket \in InputBucketNames :
       Converge("GRProcessingStack",
                [NoInputs EXCEPT !.rtpApiUrl = url, !.inputBucketName = bucket],
                GRProcessingStack(url, bucket), TRUE)

ApplyVisaStubStack ==
  /\ Converge("VisaStubStack", NoInputs, VisaStubStack, TRUE)

DeployedPolicy(id) == IF HasFunction(id) THEN Function(id).policy ELSE <<>>

ApplyAgentCoreInvokerStackAdditive ==
  /\ \E code \in InvokerCodeAssets :
       Converge("AgentCoreInvokerStack", [NoInputs EXCEPT !.code = code],
                AgentCoreInvokerStack(code,
                  DeployedPolicy("AgentCoreInvokerLambda") \o AgentCoreInvokerPolicy),
                TRUE)

ApplyAgentCoreInvokerStack ==
  /\ \E code \in InvokerCodeAssets :
       Converge("AgentCoreInvokerStack", [NoInputs EXCEPT !.code = code],
                AgentCoreInvokerStack(code, AgentCoreInvokerPolicy), TRUE)

ApplyLambdaStack ==
  /\ \E ctx \in ContextValues :
       LET props == LambdaStackProps(Exports)
           declared == LambdaStack(props, ctx, Exports)
       IN Converge("LambdaStack", [NoInputs EXCEPT !.ctx = ctx], declared,
                   fromLookup(props.vpcId) /\ Resolves(declared))

(***************************************************************************)
(* The deployment script sets the bridge's RUNTIME_ARN on the deployed     *)
(* function, outside the stack's declaration.                              *)
(***************************************************************************)
RealRuntimeArn ==
  "arn:aws:bedrock-agentcore:us-east-1:" \o Account \o ":runtime/visa_b2b_payment_agent"

SetEnv(f, k, binding, v) ==
  [f EXCEPT !.environment = {e \in @ : e.k # k} \cup {Env(k, binding, v)}]

SetRuntimeArn ==
  /\ Deployed("AgentCoreInvokerStack")
  /\ stacks' = [stacks EXCEPT !["AgentCoreInvokerStack"].functions =
                  {SetEnv(f, "RUNTIME_ARN", "out-of-band", RealRuntimeArn) : f \in @}]
  /\ last' = [op |-> "setRuntimeArn", unit |-> "AgentCoreInvokerStack",
              inputs |-> NoInputs, outcome |-> "applied", again |-> FALSE]
  /\ UNCHANGED <<templates, order, invocation, response>>

(***************************************************************************)
(* The proxying function calls the function named by its                   *)
(* AGENTCORE_INVOKER_LAMBDA_NAME: denied without a lambda:InvokeFunction   *)
(* grant on that function's ARN, not found when no such function exists.   *)
(***************************************************************************)
MayInvoke(f, functionName) ==
  \E s \in Range(f.policy) :
    "lambda:InvokeFunction" \in s.actions /\ FunctionArn(functionName) \in s.resources

FunctionExists(functionName) == \E f \in Functions : f.functionName = functionName

InvokeBridge ==
  /\ Deployed("LambdaStack")
  /\ LET api == Function("ApiLambda")
         e == EnvEntry(api, "AGENTCORE_INVOKER_LAMBDA_NAME")
     IN invocation' =
          [target |-> e.v,
           outcome |-> IF ~MayInvoke(api, e.v) THEN "AccessDenied"
                       ELSE IF ~FunctionExists(e.v) THEN "ResourceNotFound"
                       ELSE "Invoked",
           bridgeDeployed |-> Deployed("AgentCoreInvokerStack"),
           binding |-> e.binding]
  /\ last' = [op |-> "invoke", unit |-> "LambdaStack", inputs |-> NoInputs,
              outcome |-> "applied", again |-> FALSE]
  /\ UNCHANGED <<stacks, templates, order, response>>

Next ==
  \/ ApplyInfrastructureStack
  \/ ApplyInvoiceProcessingStack
  \/ ApplyGRProcessingStack
  \/ ApplyVisaStubStack
  \/ ApplyAgentCoreInvokerStack
  \/ ApplyLambdaStack
  \/ SetRuntimeArn
  \/ InvokeBridge

Spec == Init /\ [][Next]_vars

(***************************************************************************)
(* The stub simulator at run time: test orchestration switches a stub      *)
(* function's RESPONSE_MODE on the deployed function, and a client calls   *)
(* an endpoint; the function's handler answers according to the mode.      *)
(***************************************************************************)
ResponseModes == {"SUCCESS", "FAILURE", "TIMEOUT"}

\* the operation a handler of lambda/visa-stubs implements
HandlerOperation(handler) ==
  CASE handler = "index.virtualCardRequisition" -> "VirtualCardRequisition"
    [] handler = "index.processPayments" -> "ProcessPayments"
    [] handler = "index.getPaymentDetails" -> "GetPaymentDetails"
    [] handler = "index.getSecurityCode" -> "GetSecurityCode"
    [] OTHER -> ""

\* the handler's answer: a success payload of its operation, a failure, or,
\* in mode TIMEOUT, nothing until after the function's timeout
visaStubHandler(f) ==
  LET mode == EnvEntry(f, "RESPONSE_MODE").v
  IN [class |-> CASE mode = "SUCCESS" -> "success"
                  [] mode = "FAILURE" -> "failure"
                  [] OTHER -> "none",
      operation |-> IF mode = "SUCCESS" THEN HandlerOperation(f.handler) ELSE "",
      delay |-> IF mode = "TIMEOUT" THEN f.timeout + 1 ELSE 0]

SetResponseMode ==
  /\ \E f \in stacks["VisaStubStack"].functions, mode \in ResponseModes :
       /\ EnvEntry(f, "RESPONSE_MODE").v # mode
       /\ stacks' = [stacks EXCEPT !["VisaStubStack"].functions =
                       (@ \ {f}) \cup {SetEnv(f, "RESPONSE_MODE", "out-of-band", mode)}]
  /\ last' = [op |-> "setResponseMode", unit |-> "VisaStubStack", inputs |-> NoInputs,
              outcome |-> "applied", again |-> FALSE]
  /\ UNCHANGED <<templates, order, invocation, response>>

\* a POST to one of the stub's endpoints: the gateway passes it to the route's
\* function and the caller gets the handler's answer
CallStub ==
  /\ \E r \in stacks["VisaStubStack"].routes :
       /\ r.function # ""
       /\ LET f == CHOOSE g \in stacks["VisaStubStack"].functions : g.id = r.function
              answer == visaStubHandler(f)
          IN response' = [path |-> r.path,
                          mode |-> EnvEntry(f, "RESPONSE_MODE").v,
                          binding |-> EnvEntry(f, "RESPONSE_MODE").binding,
                          timeout |-> f.timeout,
                          class |-> answer.class,
                          operation |-> answer.operation,
                          delay |-> answer.delay]
  /\ last' = [op |-> "callStub", unit |-> "VisaStubStack", inputs |-> NoInputs,
              outcome |-> "applied", again |-> FALSE]
  /\ UNCHANGED <<stacks, templates, order, invocation>>

NextStub ==
  \/ ApplyVisaStubStack
  \/ SetResponseMode
  \/ CallStub

SpecStub == Init /\ [][NextStub]_vars

(***************************************************************************)
(* Properties                                                              *)
(***************************************************************************)
Index(seq, u) == CHOOSE k \in DOMAIN seq : seq[k] = u

ProxyDeployed == Deployed("LambdaStack")

BridgeDeployed == Deployed("AgentCoreInvokerStack")

\* the proxying function's bridge-invoke target, as deployed
ProxyTarget == EnvEntry(Function("ApiLambda"), "AGENTCORE_INVOKER_LAMBDA_NAME")

LambdaApplied(l) == l.op = "apply" /\ l.unit = "LambdaStack" /\ l.outcome = "applied"

C2_RequiredImportsOrdered ==
  \A i \in Imports :
    (~i.placeholder /\ Deployed(i.to))
      => /\ Deployed(i.from)
         /\ Index(order, i.from) < Index(order, i.to)

\* C2 witness: the proxying unit is deployed (after the infrastructure), and ahead
\* of the bridge whose function name it takes through the placeholder import.
C2_ProxyAheadOfBridge ==
  /\ ProxyDeployed /\ BridgeDeployed
  /\ Index(order, "InfrastructureStack") < Index(order, "LambdaStack")
  /\ Index(order, "LambdaStack") < Index(order, "AgentCoreInvokerStack")

(***************************************************************************)
(* What a role policy allows, as (use, resource) pairs                     *)
(***************************************************************************)
BucketNames ==
  {ReceiptsBucketName, InvoiceInputBucketName, Iso20022OutputBucketName,
   DefaultGRInputBucketName} \cup (InputBucketNames \ {""})

UseOf(action) ==
  CASE action \in {"s3:GetObject", "s3:GetObject*", "s3:GetBucket*", "s3:List*",
                   "s3:ListBucket"} -> "bucket-read"
    [] action \in {"s3:PutObject", "s3:PutObject*", "s3:DeleteObject", "s3:DeleteObject*",
                   "s3:Abort*"} -> "bucket-write"
    [] action \in {"secretsmanager:GetSecretValue", "secretsmanager:DescribeSecret"}
         -> "secret-read"
    [] action = "bedrock:InvokeModel" -> "inference-invoke"
    [] action \in {"bedrock-agentcore:InvokeRuntime", "bedrock-agentcore:InvokeAgentRuntime",
                   "bedrock-agentcore:GetAgentRuntime"} -> "runtime-invoke"
    [] action = "lambda:InvokeFunction" -> "function-invoke"
    [] action \in {"kms:Encrypt", "kms:Decrypt", "kms:DescribeKey"} -> "key-use"
    [] OTHER -> action

\* a bucket's objects (arn/*) count as the bucket
ResourceOf(arn) ==
  IF \E b \in BucketNames : arn = BucketArn(b) \o "/*"
    THEN BucketArn(CHOOSE b \in BucketNames : arn = BucketArn(b) \o "/*")
    ELSE arn

Use(use, on) == [use |-> use, on |-> on]

Granted(f) ==
  {Use(UseOf(a), ResourceOf(r)) :
     <<a, r>> \in UNION {s.actions \X s.resources : s \in Range(f.policy)}}

IngestionUnits == {"InvoiceProcessingLambda", "GRProcessingLambda"}

StubUnits == {"VirtualCardRequisition", "ProcessPayments", "GetPaymentDetails",
              "GetSecurityCode"}

StackOf(f) == CHOOSE u \in Units : f \in stacks[u].functions

DeclaredUsages(f) ==
  CASE f.id = "InvoiceProcessingLambda" ->
         {Use("bucket-read", BucketArn(InvoiceInputBucketName)),
          Use("bucket-write", BucketArn(Iso20022OutputBucketName)),
          Use("secret-read", SecretArn(ApiKeySecretName))}
         \cup {Use("inference-invoke", r) : r \in BedrockInvokeModel.resources}
    [] f.id = "GRProcessingLambda" ->
         {Use("bucket-read", BucketArn(b)) : b \in stacks["GRProcessingStack"].buckets}
         \cup {Use("inference-invoke", r) : r \in BedrockInvokeModel.resources}
    [] f.id = "ApiLambda" ->
         {Use("secret-read", SecretArn(DbSecretName)),
          Use("bucket-read", BucketArn(ReceiptsBucketName)),
          Use("bucket-write", BucketArn(ReceiptsBucketName)),
          Use("bucket-read", BucketArn(InvoiceInputBucketName)),
          Use("bucket-write", BucketArn(InvoiceInputBucketName)),
          Use("bucket-read", BucketArn(DefaultGRInputBucketName)),
          Use("bucket-write", BucketArn(DefaultGRInputBucketName)),
          Use("bucket-read", BucketArn(Iso20022OutputBucketName)),
          Use("runtime-invoke", AgentRuntimePattern),
          Use("function-invoke", FunctionArn(AgentCoreInvokerFunctionName)),
          Use("key-use", KmsKeyPattern)}
    [] f.id = "MigrationLambda" -> {Use("secret-read", SecretArn(DbSecretName))}
    [] f.id = "AgentCoreInvokerLambda" -> {Use("runtime-invoke", AgentRuntimePattern)}
    [] OTHER -> {}

Writers(b) == {f.id : f \in {g \in Functions : Use("bucket-write", BucketArn(b)) \in Granted(g)}}

Writable(f) == {b \in BucketNames : Use("bucket-write", BucketArn(b)) \in Granted(f)}

\* C4: no bucket has two compute units with write access; an ingestion unit has
\* no write access to the input bucket of its stack; only the proxying unit has
\* write access to more than one bucket.
C4_SingleWriterPerBucket ==
  /\ \A b \in BucketNames : Cardinality(Writers(b)) <= 1
  /\ \A f \in Functions :
       /\ f.id = "GRProcessingLambda" => Writable(f) \cap stacks[StackOf(f)].buckets = {}
       /\ f.id = "InvoiceProcessingLambda" => InvoiceInputBucketName \notin Writable(f)
       /\ Cardinality(Writable(f)) > 1 => f.id = "ApiLambda"

\* C4 witness: every unit is deployed, the proxying unit writes three buckets and
\* the invoice unit writes the structured-output bucket.
C4_WritersDeployed ==
  /\ \A u \in Units : Deployed(u)
  /\ Cardinality(Writable(Function("ApiLambda"))) = 3
  /\ Writers(Iso20022OutputBucketName) = {"InvoiceProcessingLambda"}

(***************************************************************************)
(* Network isolation                                                       *)
(***************************************************************************)
DbIngress ==
  {r \in UNION {stacks[u].ingress : u \in Units} :
     r.group = "InfrastructureStack/DbSecurityGroup"}

\* C5: every ingress rule on the database's security group has a security group
\* as its source, never a CIDR range.
C5_IngressOnlyFromSecurityGroups ==
  \A r \in DbIngress : r.peer.kind = "securityGroup"

\* the compute units with no need of the database
NoDatabaseUnits == IngestionUnits \cup StubUnits \cup {"AgentCoreInvokerLambda"}

\* C6: a compute unit with no need of the database has no network attachment,
\* and no ingress rule of the database's security group has a security group of
\* such a unit as its source.
C6_NoAttachmentWithoutDatabaseNeed ==
  \A f \in Functions :
    f.id \in NoDatabaseUnits
      => /\ f.securityGroups = {}
         /\ \A r \in DbIngress :
              r.peer.kind = "securityGroup" => r.peer.id \notin f.securityGroups

\* C6 witness: the seven units with no need of the database are deployed next
\* to the database's ingress rules and the attached proxying unit.
C6_IsolatedUnitsDeployed ==
  /\ \A id \in NoDatabaseUnits : HasFunction(id)
  /\ DbIngress # {}
  /\ ProxyDeployed
  /\ Function("ApiLambda").securityGroups # {}

(***************************************************************************)
(* Key use                                                                 *)
(***************************************************************************)
KeyUseStatements ==
  {s \in UNION {Range(f.policy) : f \in Functions} :
     s.actions \cap {"kms:Encrypt", "kms:Decrypt", "kms:DescribeKey"} # {}}

\* C7: every statement granting kms:Encrypt, kms:Decrypt or kms:DescribeKey has
\* exactly one condition, a StringEquals on kms:RequestAlias naming one key alias.
C7_KeyUseConditionedOnAlias ==
  \A s \in KeyUseStatements :
    /\ Cardinality(s.conditions) = 1
    /\ \A c \in s.conditions :
         /\ c.operator = "StringEquals"
         /\ c.key = "kms:RequestAlias"
         /\ c.value = "alias/rtp-overlay-payment-cards"

\* C7 witness: the proxying unit is deployed and holds a key-use grant on the
\* wildcard key ARN.
C7_KeyUseGranted ==
  \E s \in KeyUseStatements : KmsKeyPattern \in s.resources

C10_SecondApplyChangesNothing ==
  [][(/\ last.op = "apply" /\ last.outcome = "applied"
      /\ last'.op = "apply" /\ last'.unit = last.unit /\ last'.inputs = last.inputs)
       => /\ stacks' = stacks
          /\ last'.outcome = "applied"]_vars

\* C10 witness: a unit has just been applied a second time with the same inputs.
C10_AppliedAgain ==
  /\ last.op = "apply" /\ last.again /\ last.outcome = "applied"
  /\ Deployed(last.unit)

(***************************************************************************)
(* Exported values                                                         *)
(***************************************************************************)
\* the outputs of the deployed units, each with the unit that owns it
OwnedOutputs == UNION {{u} \X stacks[u].outputs : u \in Units}

ExportedBy(u, value) ==
  \E o \in stacks[u].outputs : o.exportName # "" /\ o.value = value

\* C11: every bucket name and bucket ARN, every secret ARN and every compute
\* unit's function name is exported by the unit that owns it, the infrastructure
\* unit exports the network id, the private subnet ids, the compute-unit
\* security-group id and the database endpoint and port, and no two outputs of
\* the deployed units share an export name.
C11_CrossUnitValuesExportedUniquely ==
  /\ \A u \in Units :
       /\ \A b \in stacks[u].buckets : ExportedBy(u, b) /\ ExportedBy(u, BucketArn(b))
       /\ \A n \in stacks[u].secrets : ExportedBy(u, SecretArn(n))
       /\ \A f \in stacks[u].functions : ExportedBy(u, f.functionName)
  /\ Deployed("InfrastructureStack")
       => \A id \in {"VpcId", "PrivateSubnetIds", "LambdaSecurityGroupId",
                     "DatabaseEndpoint", "DatabasePort"} :
            \E o \in stacks["InfrastructureStack"].outputs : o.id = id /\ o.exportName # ""
  /\ \A p, q \in OwnedOutputs :
       (p[2].exportName # "" /\ p[2].exportName = q[2].exportName) => p = q

(***************************************************************************)
(* Independence of the stub simulator from the core pipeline               *)
(***************************************************************************)
\* the deployment unit of the stub simulator, and the core pipeline's units
StubStacks == {"VisaStubStack"}

CoreStacks == Units \ StubStacks

ResourceNames(st) ==
  {f.functionName : f \in st.functions} \cup st.securityGroups \cup st.buckets \cup st.secrets

ExportNames(st) == {o.exportName : o \in {p \in st.outputs : p.exportName # ""}}

\* the exports of the deployed core units, without and with those of the stub
CoreExports ==
  ExportsOf([u \in Units |-> IF u \in StubStacks THEN EmptyStack ELSE stacks[u]])

CoreAndStubExports ==
  ExportsOf([u \in Units |-> IF u \in StubStacks THEN VisaStubStack ELSE stacks[u]])

NoEdgeBetweenStubAndCore ==
  /\ \A i \in Imports : i.from \notin StubStacks /\ i.to \notin StubStacks
  /\ \A f \in VisaStubStack.functions : \A e \in f.environment : e.binding # "import"
  /\ \A u \in CoreStacks :
       /\ ResourceNames(stacks[u]) \cap ResourceNames(VisaStubStack) = {}
       /\ ExportNames(stacks[u]) \cap ExportNames(VisaStubStack) = {}
  \* what an apply of the importing unit declares, and whether it is accepted,
  \* is the same whether or not the stub is deployed
  /\ \A ctx \in ContextValues :
       LET without == LambdaStack(LambdaStackProps(CoreExports), ctx, CoreExports)
           with == LambdaStack(LambdaStackProps(CoreAndStubExports), ctx, CoreAndStubExports)
       IN /\ with = without
          /\ fromLookup(LambdaStackProps(CoreExports).vpcId)
               = fromLookup(LambdaStackProps(CoreAndStubExports).vpcId)
          /\ Resolves(with) = Resolves(without)

StubStepsCommuteWithCoreSteps ==
  /\ (last'.unit \in StubStacks)
       => /\ \A u \in CoreStacks : stacks'[u] = stacks[u] /\ templates'[u] = templates[u]
          /\ order' = order
          /\ invocation' = invocation
  /\ (last'.unit \notin StubStacks)
       => \A u \in StubStacks : stacks'[u] = stacks[u] /\ templates'[u] = templates[u]

\* C12: the stub simulator imports nothing from the core units and they import
\* nothing from it, it shares no resource name and no export name with them, and
\* what a core unit's apply declares does not depend on it; a step of the stub
\* changes no core unit and a step of a core unit does not change the stub, so
\* its apply commutes with every core apply.
C12_StubIndependentOfCore ==
  /\ []NoEdgeBetweenStubAndCore
  /\ [][StubStepsCommuteWithCoreSteps]_vars

\* C12 witness: the stub has been applied between the core units' applies: it
\* is deployed, and so are all core units, the importing one applied last with
\* the bridge's name imported.
C12_StubAppliedAmongCore ==
  /\ \A u \in Units : Deployed(u)
  /\ last.op = "apply" /\ last.unit = "LambdaStack" /\ last.outcome = "applied"
  /\ last.inputs.ctx = "true"

(***************************************************************************)
(* Secrets: referenced, never copied                                       *)
(***************************************************************************)
SecretNames == {DbSecretName, ApiKeySecretName}

SecretValues == {SecretValue(n) : n \in SecretNames}

\* every value a unit's configuration holds: the environment of its functions,
\* its outputs, and the parameters it was last applied with
ConfigurationValues ==
  UNION {{e.v : e \in f.environment} : f \in Functions}
    \cup {o.value : o \in UNION {stacks[u].outputs : u \in Units}}
    \cup {last.inputs[k] : k \in DOMAIN last.inputs}
    \cup {LambdaStackProps(Exports)[k] : k \in DOMAIN LambdaStackProps(Exports)}

\* the secrets a function's environment refers to, by ARN or by name
SecretsReferenced(f) ==
  {n \in SecretNames : \E e \in f.environment : e.v \in {SecretArn(n), n}}

SecretsReadable(f) == {g.on : g \in {h \in Granted(f) : h.use = "secret-read"}}

SecretConsumers == {f \in Functions : SecretsReferenced(f) # {}}

\* C13: no environment value, output or stack parameter is a secret's value; the
\* database password and the API key exist only as generated values of secrets
\* their owning units declare; and a function may read exactly the secrets its
\* environment refers to, each consumer referring to one secret.
C13_SecretsReferencedNeverCopied ==
  /\ ConfigurationValues \cap SecretValues = {}
  /\ Deployed("InfrastructureStack") => DbSecretName \in stacks["InfrastructureStack"].secrets
  /\ Deployed("InvoiceProcessingStack")
       => ApiKeySecretName \in stacks["InvoiceProcessingStack"].secrets
  /\ \A f \in Functions :
       /\ SecretsReadable(f) = {SecretArn(n) : n \in SecretsReferenced(f)}
       /\ Cardinality(SecretsReferenced(f)) <= 1

\* C13 witness: the three consumers of a secret are deployed, each with its
\* reference: the proxying and the migration function to the database secret,
\* the invoice function to the API key secret.
C13_ConsumersDeployed ==
  /\ {f.id : f \in SecretConsumers}
       = {"ApiLambda", "MigrationLambda", "InvoiceProcessingLambda"}
  /\ \A f \in SecretConsumers : SecretsReadable(f) # {}

(***************************************************************************)
(* The stub simulator's endpoints                                          *)
(***************************************************************************)
\* the handler of each operation, by the operation's path
OwnHandler(path) ==
  CASE path = "/vpa/v1/accountManagement/VirtualCardRequisition" -> "index.virtualCardRequisition"
    [] path = "/vpa/v1/accountManagement/GetSecurityCode" -> "index.getSecurityCode"
    [] path = "/vpa/v1/payment/ProcessPayments" -> "index.processPayments"
    [] path = "/vpa/v1/payment/GetPaymentDetails" -> "index.getPaymentDetails"
    [] OTHER -> ""

EndpointPaths ==
  {"/vpa/v1/accountManagement/VirtualCardRequisition",
   "/vpa/v1/accountManagement/GetSecurityCode",
   "/vpa/v1/payment/ProcessPayments",
   "/vpa/v1/payment/GetPaymentDetails"}

\* the routes of the deployed stub that a function answers
StubEndpoints == {r \in stacks["VisaStubStack"].routes : r.function # ""}

StubFunctionOf(r) == CHOOSE f \in stacks["VisaStubStack"].functions : f.id = r.function

\* C14: the deployed stub has exactly four endpoints, POST on each of the four
\* paths; every other method of its API is a CORS preflight that no function
\* answers; each endpoint's function runs the handler of the path's own
\* operation, and the four paths go to four different functions, which are all
\* the functions of the unit.
C14_FourPostEndpointsOneToOne ==
  Deployed("VisaStubStack") =>
    /\ {<<r.path, r.method>> : r \in StubEndpoints} = EndpointPaths \X {"POST"}
    /\ Cardinality(StubEndpoints) = Cardinality(EndpointPaths)
    /\ \A r \in stacks["VisaStubStack"].routes \ StubEndpoints : r.method = "OPTIONS"
    /\ \A r \in StubEndpoints :
         /\ \E f \in stacks["VisaStubStack"].functions : f.id = r.function
         /\ StubFunctionOf(r).handler = OwnHandler(r.path)
    /\ \A r, q \in StubEndpoints : r.function = q.function => r = q
    /\ {r.function : r \in StubEndpoints} = {f.id : f \in stacks["VisaStubStack"].functions}

\* C14 witness: the stub is deployed with its endpoints, the proxying unit is not
C14_StubEndpointsDeployed ==
  /\ Deployed("VisaStubStack")
  /\ StubEndpoints # {}
  /\ ~Deployed("LambdaStack")

(***************************************************************************)
(* The stub simulator's answers                                            *)
(***************************************************************************)
\* the operation each endpoint declares
PathOperation(path) ==
  CASE path = "/vpa/v1/accountManagement/VirtualCardRequisition" -> "VirtualCardRequisition"
    [] path = "/vpa/v1/accountManagement/GetSecurityCode" -> "GetSecurityCode"
    [] path = "/vpa/v1/payment/ProcessPayments" -> "ProcessPayments"
    [] path = "/vpa/v1/payment/GetPaymentDetails" -> "GetPaymentDetails"
    [] OTHER -> "none"

StubMode(f) == EnvEntry(f, "RESPONSE_MODE")

BridgeRuntimeArn ==
  IF BridgeDeployed
    THEN EnvEntry(Function("AgentCoreInvokerLambda"), "RUNTIME_ARN").v
    ELSE ""

\* C16: once the bridge's RUNTIME_ARN is the real runtime identifier, no step
\* returns it to the placeholder.
C16_RuntimeArnNeverBackToPlaceholder ==
  [][BridgeRuntimeArn = RealRuntimeArn => BridgeRuntimeArn' # RuntimeArnPlaceholder]_vars

(***************************************************************************)
(* The proxying unit's bridge target and its invoke grant                  *)
(***************************************************************************)
\* the functions the proxying function's role may invoke
InvokeGrantTargets ==
  {g.on : g \in {h \in Granted(Function("ApiLambda")) : h.use = "function-invoke"}}

====
